---- MODULE Spec2Model ----
(***************************************************************************)
(* A model of the server health automation scripts.                        *)
(*                                                                         *)
(*   log_report.py    parse_log_line, load_log_file, summarize_by_server,  *)
(*                    summarize_by_env, summarize_health,                  *)
(*                    compute_server_metrics, generate_server_report,      *)
(*                    generate_env_report, main                            *)
(*                                                                         *)
(* Text is a sequence of one-character strings, so that strip, split and   *)
(* int act on characters as the Python built-ins do.  Literal text of a    *)
(* report line is kept in chunks (one string per literal of the f-string). *)
(* An optional integer is <<>> (None) or <<v>>.  A quotient of two         *)
(* integers (a Python float) is the record [num, den] with den > 0,        *)
(* compared by cross-multiplication.                                       *)
(***************************************************************************)
EXTENDS Integers, Sequences, FiniteSets, TLC

VARIABLES
    \* ---- one run of log_report.main ----
    log,            \* the lines of the input log file
    pos,            \* index of the next line load_log_file reads
    entries,        \* load_log_file's list of parsed records
    err,            \* the exception that ended the run, or "none"
    summary_serv,   \* main's summary_serv dict
    summary_env,    \* main's summary_env dict
    console,        \* lines printed so far
    server_file,    \* the server report file
    env_file,       \* the environment report file
    pc,             \* position of main
    args,           \* main's parsed command line (--report, --no-file)
    \* ---- one call of parse_log_line on one line ----
    line,           \* the raw line
    want,           \* the fields the line was written from
    parsed,         \* the outcome of parse_log_line(line), or Pending
    \* ---- calls of the pure functions on one list of records ----
    recs,           \* the list of records (a bucket)
    metrics,        \* compute_server_metrics(recs), or Pending
    grouped,        \* the three groupings of recs, or Pending
    reported,       \* the two reports made of recs, or Pending
    \* ---- server_check.main, which appends to the same log file ----
    sim_i,          \* index in servers of run_cycle's next server
    sim_n           \* number of check_server calls made

vars == <<log, pos, entries, err, summary_serv, summary_env, console,
          server_file, env_file, pc, args, line, want, parsed, recs, metrics,
          grouped, reported, sim_i, sim_n>>

mainVars == <<log, pos, entries, err, summary_serv, summary_env, console,
              server_file, env_file, pc, args>>
parseVars == <<line, want, parsed>>
fnVars == <<recs, metrics, grouped, reported>>
simVars == <<sim_i, sim_n>>

-----------------------------------------------------------------------------
(* Bounds of the model. *)

\* most lines in the log file of one run
MaxLines == 3
\* most records in a bucket handed to the pure functions
MaxBucket == 3
\* most comma-separated fields in a line handed to parse_log_line
MaxFields == 8
\* most checks server_check makes
MaxChecks == 5
\* most checks server_check makes beside one run of log_report
MaxAppends == 3

-----------------------------------------------------------------------------
(* Python values. *)

None == <<>>
Some(v) == <<v>>

Pending == [kind |-> "pending"]

\* the characters str.strip() removes
Whitespace == {" ", "\t", "\n", "\r"}

Digits == <<"0", "1", "2", "3", "4", "5", "6", "7", "8", "9">>

\* the characters of the model in code point order
AsciiOrder ==
    <<"\t", "\n", "\r", " ", "+", ",", "-", ".", "/",
      "0", "1", "2", "3", "4", "5", "6", "7", "8", "9",
      "A", "C", "D", "F", "G", "I", "L", "N", "O", "R", "T", "W", "_",
      "a", "b", "c", "d", "e", "g", "h", "l", "n", "o", "p", "r", "s",
      "t", "u", "v", "w", "x">>

\* rank of a character in code point order
ord(c) == CHOOSE i \in 1..Len(AsciiOrder) : AsciiOrder[i] = c

\* str < str : lexicographic on code points, a proper prefix is smaller
RECURSIVE StrLess(_, _)
StrLess(a, b) ==
    IF b = <<>> THEN FALSE
    ELSE IF a = <<>> THEN TRUE
    ELSE IF Head(a) = Head(b) THEN StrLess(Tail(a), Tail(b))
    ELSE ord(Head(a)) < ord(Head(b))

RECURSIVE lstrip(_)
lstrip(s) ==
    IF s = <<>> THEN s
    ELSE IF Head(s) \in Whitespace THEN lstrip(Tail(s))
    ELSE s

RECURSIVE rstrip(_)
rstrip(s) ==
    IF s = <<>> THEN s
    ELSE IF s[Len(s)] \in Whitespace THEN rstrip(SubSeq(s, 1, Len(s) - 1))
    ELSE s

\* variant of strip: only the leading whitespace is removed
strip_left_only(s) == lstrip(s)

\* str.strip()
strip(s) == rstrip(lstrip(s))

\* str.split(sep) for a one-character separator: always at least one part
RECURSIVE split(_, _)
split(s, sep) ==
    IF \A i \in 1..Len(s) : s[i] # sep THEN <<s>>
    ELSE LET i == CHOOSE k \in 1..Len(s) :
                      s[k] = sep /\ \A j \in 1..(k - 1) : s[j] # sep
         IN <<SubSeq(s, 1, i - 1)>> \o split(SubSeq(s, i + 1, Len(s)), sep)

\* sep.join(parts)
RECURSIVE join(_, _)
join(sep, parts) ==
    IF parts = <<>> THEN <<>>
    ELSE IF Len(parts) = 1 THEN parts[1]
    ELSE parts[1] \o sep \o join(sep, Tail(parts))

IsDigit(c) == \E d \in 1..Len(Digits) : Digits[d] = c
DigitVal(c) == (CHOOSE d \in 1..Len(Digits) : Digits[d] = c) - 1

\* value of a run of digits and underscores, most significant first
RECURSIVE DigitsValue(_, _)
DigitsValue(s, acc) ==
    IF s = <<>> THEN acc
    ELSE IF Head(s) = "_" THEN DigitsValue(Tail(s), acc)
    ELSE DigitsValue(Tail(s), 10 * acc + DigitVal(Head(s)))

\* int(text): surrounding whitespace, an optional sign, then digits with
\* single underscores between them; anything else raises ValueError
int(text) ==
    LET t == strip(text)
        signed == t # <<>> /\ Head(t) \in {"+", "-"}
        body == IF signed THEN Tail(t) ELSE t
        valid == /\ body # <<>>
                 /\ IsDigit(body[1])
                 /\ IsDigit(body[Len(body)])
                 /\ \A i \in 1..Len(body) : IsDigit(body[i]) \/ body[i] = "_"
                 /\ \A i \in 1..(Len(body) - 1) :
                        ~(body[i] = "_" /\ body[i + 1] = "_")
    IN IF ~valid THEN [ok |-> FALSE, val |-> 0]
       ELSE [ok |-> TRUE,
             val |-> IF signed /\ Head(t) = "-"
                     THEN 0 - DigitsValue(body, 0)
                     ELSE DigitsValue(body, 0)]

-----------------------------------------------------------------------------
(* Text constants of the programs. *)

S_True == <<"T", "r", "u", "e">>
S_NA == <<"N", "/", "A">>
S_WARNING == <<"W", "A", "R", "N", "I", "N", "G">>

(* Text the inputs are written from. *)

S_False == <<"F", "a", "l", "s", "e">>
S_true == <<"t", "r", "u", "e">>
S_GOOD == <<"G", "O", "O", "D">>
S_CRITICAL == <<"C", "R", "I", "T", "I", "C", "A", "L">>
S_web01 == <<"w", "e", "b", "0", "1">>
S_db01 == <<"d", "b", "0", "1">>
S_cache01 == <<"c", "a", "c", "h", "e", "0", "1">>
S_auth01 == <<"a", "u", "t", "h", "0", "1">>
S_auth02 == <<"a", "u", "t", "h", "0", "2">>
S_prod == <<"p", "r", "o", "d">>
S_dev == <<"d", "e", "v">>
S_stage == <<"s", "t", "a", "g", "e">>
S_extra == <<"e", "x", "t", "r", "a">>

-----------------------------------------------------------------------------
(* parse_log_line *)

ReturnNone == [kind |-> "none"]
Return(r) == [kind |-> "record", rec |-> r]
Raise(e) == [kind |-> "raise", exc |-> e]

parse_log_line(l) ==
    LET stripped == strip(l) IN
    IF stripped = <<>> THEN ReturnNone
    ELSE
    LET parts == split(stripped, ",")
        clean_parts == [i \in 1..Len(parts) |-> strip(parts[i])]
    IN  \* clean_parts[0] .. clean_parts[6]: the first index past the end
        \* raises IndexError
        IF Len(clean_parts) < 7 THEN Raise("IndexError")
        ELSE
        LET timestamp_text == clean_parts[1]
            server_name == clean_parts[2]
            server_env == clean_parts[3]
            is_up_text == clean_parts[4]
            cpu_text == clean_parts[5]
            disk_text == clean_parts[6]
            status_text == clean_parts[7]
            is_up == IF is_up_text = S_True THEN TRUE ELSE FALSE
            cpu_int == int(cpu_text)
            disk_int == int(disk_text)
        IN  IF cpu_text # S_NA /\ ~cpu_int.ok THEN Raise("ValueError")
            ELSE IF disk_text # S_NA /\ ~disk_int.ok THEN Raise("ValueError")
            ELSE Return([timestamp |-> timestamp_text,
                         server |-> server_name,
                         env |-> server_env,
                         is_up |-> is_up,
                         cpu |-> IF cpu_text = S_NA THEN None
                                 ELSE Some(cpu_int.val),
                         disk |-> IF disk_text = S_NA THEN None
                                  ELSE Some(disk_int.val),
                         status |-> status_text])

-----------------------------------------------------------------------------
(* Grouping: a dict is its keys in insertion order and, alongside, the list *)
(* stored under each key.                                                   *)

EmptyDict == [keys |-> <<>>, items |-> <<>>]

HasKey(d, k) == \E i \in 1..Len(d.keys) : d.keys[i] = k

\* variant of setdefault_append: the record that creates a bucket is not
\* stored in it (append in an else branch)
setdefault_else_append(d, k, e) ==
    IF ~HasKey(d, k)
    THEN [keys |-> Append(d.keys, k), items |-> Append(d.items, <<>>)]
    ELSE [keys |-> d.keys,
          items |-> [i \in 1..Len(d.items) |->
                        IF d.keys[i] = k THEN Append(d.items[i], e)
                        ELSE d.items[i]]]

\* if k not in d: d[k] = []
\* d[k].append(e)
setdefault_append(d, k, e) ==
    IF ~HasKey(d, k)
    THEN [keys |-> Append(d.keys, k), items |-> Append(d.items, <<e>>)]
    ELSE [keys |-> d.keys,
          items |-> [i \in 1..Len(d.items) |->
                        IF d.keys[i] = k THEN Append(d.items[i], e)
                        ELSE d.items[i]]]

RECURSIVE summarize_by_server_loop(_, _)
summarize_by_server_loop(es, summary) ==
    IF es = <<>> THEN summary
    ELSE summarize_by_server_loop(
             Tail(es), setdefault_append(summary, Head(es).server, Head(es)))

summarize_by_server(es) == summarize_by_server_loop(es, EmptyDict)

RECURSIVE summarize_by_env_loop(_, _)
summarize_by_env_loop(es, summary) ==
    IF es = <<>> THEN summary
    ELSE summarize_by_env_loop(
             Tail(es), setdefault_append(summary, Head(es).env, Head(es)))

summarize_by_env(es) == summarize_by_env_loop(es, EmptyDict)

RECURSIVE summarize_health_loop(_, _)
summarize_health_loop(es, summary) ==
    IF es = <<>> THEN summary
    ELSE summarize_health_loop(
             Tail(es), setdefault_append(summary, Head(es).status, Head(es)))

summarize_health(es) == summarize_health_loop(es, EmptyDict)

-----------------------------------------------------------------------------
(* compute_server_metrics *)

Zero == [num |-> 0, den |-> 1]

\* sum(values)
RECURSIVE sum(_)
sum(values) == IF values = <<>> THEN 0 ELSE Head(values) + sum(Tail(values))

\* max(values), values not empty
max(values) ==
    CHOOSE m \in {values[i] : i \in 1..Len(values)} :
        \A i \in 1..Len(values) : values[i] <= m

\* the counters and lists before the loop
metrics_start ==
    [up_count |-> 0, warning_count |-> 0, critical_count |-> 0,
     cpu_values |-> <<>>, disk_values |-> <<>>]

\* variant of metrics_step: critical_count follows the status label
metrics_step_critical_by_status(acc, entry) ==
    [up_count |-> IF entry.is_up THEN acc.up_count + 1 ELSE acc.up_count,
     critical_count |-> IF entry.status = S_CRITICAL
                        THEN acc.critical_count + 1 ELSE acc.critical_count,
     warning_count |-> IF entry.status = S_WARNING THEN acc.warning_count + 1
                       ELSE acc.warning_count,
     cpu_values |-> IF entry.cpu # None THEN Append(acc.cpu_values, entry.cpu[1])
                    ELSE acc.cpu_values,
     disk_values |-> IF entry.disk # None
                     THEN Append(acc.disk_values, entry.disk[1])
                     ELSE acc.disk_values]

\* variant of metrics_step: a warning is counted only for an up record
metrics_step_warning_when_up(acc, entry) ==
    [up_count |-> IF entry.is_up THEN acc.up_count + 1 ELSE acc.up_count,
     critical_count |-> IF entry.is_up THEN acc.critical_count
                        ELSE acc.critical_count + 1,
     warning_count |-> IF entry.is_up /\ entry.status = S_WARNING
                       THEN acc.warning_count + 1 ELSE acc.warning_count,
     cpu_values |-> IF entry.cpu # None THEN Append(acc.cpu_values, entry.cpu[1])
                    ELSE acc.cpu_values,
     disk_values |-> IF entry.disk # None
                     THEN Append(acc.disk_values, entry.disk[1])
                     ELSE acc.disk_values]

\* variant of metrics_step: an absent value is collected as 0
metrics_step_none_as_zero(acc, entry) ==
    [up_count |-> IF entry.is_up THEN acc.up_count + 1 ELSE acc.up_count,
     critical_count |-> IF entry.is_up THEN acc.critical_count
                        ELSE acc.critical_count + 1,
     warning_count |-> IF entry.status = S_WARNING THEN acc.warning_count + 1
                       ELSE acc.warning_count,
     cpu_values |-> Append(acc.cpu_values,
                           IF entry.cpu # None THEN entry.cpu[1] ELSE 0),
     disk_values |-> Append(acc.disk_values,
                            IF entry.disk # None THEN entry.disk[1] ELSE 0)]

\* one iteration of the loop over the bucket
metrics_step(acc, entry) ==
    [up_count |-> IF entry.is_up THEN acc.up_count + 1 ELSE acc.up_count,
     critical_count |-> IF entry.is_up THEN acc.critical_count
                        ELSE acc.critical_count + 1,
     warning_count |-> IF entry.status = S_WARNING THEN acc.warning_count + 1
                       ELSE acc.warning_count,
     cpu_values |-> IF entry.cpu # None THEN Append(acc.cpu_values, entry.cpu[1])
                    ELSE acc.cpu_values,
     disk_values |-> IF entry.disk # None
                     THEN Append(acc.disk_values, entry.disk[1])
                     ELSE acc.disk_values]

RECURSIVE metrics_loop(_, _)
metrics_loop(es, acc) ==
    IF es = <<>> THEN acc
    ELSE metrics_loop(Tail(es), metrics_step(acc, Head(es)))

\* variant of average: the sum is not divided
average_undivided(values) ==
    IF values # <<>> THEN [num |-> sum(values), den |-> 1] ELSE Zero

\* sum(values) / len(values) if values else 0
average(values) ==
    IF values # <<>> THEN [num |-> sum(values), den |-> Len(values)] ELSE Zero

\* max(values) if values else 0
maximum(values) == IF values # <<>> THEN max(values) ELSE 0

\* variant of uptime_pct: the ratio of down records
uptime_pct_of_down(up_count, total_checks) ==
    IF total_checks > 0
    THEN [num |-> (total_checks - up_count) * 100, den |-> total_checks]
    ELSE Zero

\* (up_count / total_checks) * 100 if total_checks > 0 else 0
uptime_pct(up_count, total_checks) ==
    IF total_checks > 0 THEN [num |-> up_count * 100, den |-> total_checks]
    ELSE Zero

compute_server_metrics(entries_for_server) ==
    LET total_checks == Len(entries_for_server)
        acc == metrics_loop(entries_for_server, metrics_start)
    IN [total_checks |-> total_checks,
        up_count |-> acc.up_count,
        warning_count |-> acc.warning_count,
        critical_count |-> acc.critical_count,
        avg_cpu |-> average(acc.cpu_values),
        max_cpu |-> maximum(acc.cpu_values),
        avg_disk |-> average(acc.disk_values),
        max_disk |-> maximum(acc.disk_values),
        uptime_pct |-> uptime_pct(acc.up_count, total_checks)]

-----------------------------------------------------------------------------
(* Inputs. *)

\* lines a log file is made of: lines as check_server writes them, a blank
\* line, a line of 5 fields, a line whose cpu is no number, a line of 8 fields
LogLines ==
    <<<<"t", "1", ",", " ", "w", "e", "b", "0", "1", ",", " ", "p", "r",
        "o", "d", ",", " ", "T", "r", "u", "e", ",", " ", "5", "0", ",",
        " ", "6", "0", ",", " ", "G", "O", "O", "D", "\n">>,
      <<"t", "2", ",", " ", "d", "b", "0", "1", ",", " ", "p", "r", "o",
        "d", ",", " ", "F", "a", "l", "s", "e", ",", " ", "N", "/", "A",
        ",", " ", "N", "/", "A", ",", " ", "C", "R", "I", "T", "I", "C",
        "A", "L", "\n">>,
      <<"t", "3", ",", " ", "c", "a", "c", "h", "e", "0", "1", ",", " ",
        "d", "e", "v", ",", " ", "T", "r", "u", "e", ",", " ", "9", "0",
        ",", " ", "6", "0", ",", " ", "W", "A", "R", "N", "I", "N", "G",
        "\n">>,
      <<"t", "4", ",", " ", "w", "e", "b", "0", "1", ",", " ", "p", "r",
        "o", "d", ",", " ", "T", "r", "u", "e", ",", " ", "7", "5", ",",
        " ", "1", "0", "0", ",", " ", "W", "A", "R", "N", "I", "N", "G",
        "\n">>,
      <<"\n">>,
      <<"t", "6", ",", "w", "e", "b", "0", "1", ",", "p", "r", "o", "d",
        ",", "T", "r", "u", "e", ",", "5", "0", "\n">>,
      <<"t", "7", ",", " ", "d", "b", "0", "1", ",", " ", "p", "r", "o",
        "d", ",", " ", "T", "r", "u", "e", ",", " ", "a", "b", "c", ",",
        " ", "6", "0", ",", " ", "G", "O", "O", "D", "\n">>,
      <<"t", "8", ",", "a", "u", "t", "h", "0", "1", ",", "s", "t", "a",
        "g", "e", ",", "T", "r", "u", "e", ",", "5", "5", ",", "6", "0",
        ",", "G", "O", "O", "D", ",", "e", "x", "t", "r", "a", "\n">>>>

\* further lines the parser accepts: a down record marked WARNING, an is_up
\* field spelled true, a cpu above 100, a cpu below 0
ExtraLines ==
    <<<<"t", "9", ",", " ", "d", "b", "0", "1", ",", " ", "p", "r", "o",
        "d", ",", " ", "F", "a", "l", "s", "e", ",", " ", "N", "/", "A",
        ",", " ", "N", "/", "A", ",", " ", "W", "A", "R", "N", "I", "N",
        "G", "\n">>,
      <<"t", "1", "0", ",", " ", "w", "e", "b", "0", "1", ",", " ", "d",
        "e", "v", ",", " ", "t", "r", "u", "e", ",", " ", "2", "0", ",",
        " ", "3", "0", ",", " ", "G", "O", "O", "D", "\n">>,
      <<"t", "1", "1", ",", " ", "a", "u", "t", "h", "0", "1", ",", " ",
        "s", "t", "a", "g", "e", ",", " ", "T", "r", "u", "e", ",", " ",
        "1", "5", "0", ",", " ", "6", "0", ",", " ", "W", "A", "R", "N",
        "I", "N", "G", "\n">>,
      <<"t", "1", "2", ",", " ", "c", "a", "c", "h", "e", "0", "1", ",",
        " ", "d", "e", "v", ",", " ", "T", "r", "u", "e", ",", " ", "-",
        "5", ",", " ", "0", ",", " ", "G", "O", "O", "D", "\n">>>>

\* the records parse_log_line makes of those lines
SampleRecords ==
    {parse_log_line(l).rec :
        l \in {x \in {LogLines[i] : i \in 1..Len(LogLines)}
                     \cup {ExtraLines[i] : i \in 1..Len(ExtraLines)} :
                 parse_log_line(x).kind = "record"}}

\* all sequences over S of length at most n
SeqsUpTo(S, n) == UNION {[1..k -> S] : k \in 0..n}

\* tokens of the is_up field
IsUpTokens == {S_True, S_False, S_true, <<>>}

\* tokens of the cpu and disk fields, each with what it denotes: N/A is
\* absent, an integer literal is its value, anything else is no number
NumTokens ==
    {[text |-> S_NA, ok |-> TRUE, val |-> None],
     [text |-> <<"5", "0">>, ok |-> TRUE, val |-> <<50>>],
     [text |-> <<"0">>, ok |-> TRUE, val |-> <<0>>],
     [text |-> <<"1", "5", "0">>, ok |-> TRUE, val |-> <<150>>],
     [text |-> <<"-", "5">>, ok |-> TRUE, val |-> <<0 - 5>>],
     [text |-> <<"+", "7">>, ok |-> TRUE, val |-> <<7>>],
     [text |-> <<"0", "9">>, ok |-> TRUE, val |-> <<9>>],
     [text |-> <<"1", "_", "0">>, ok |-> TRUE, val |-> <<10>>],
     [text |-> <<"a", "b", "c">>, ok |-> FALSE, val |-> None],
     [text |-> <<"n", "/", "a">>, ok |-> FALSE, val |-> None],
     [text |-> <<"5", ".", "5">>, ok |-> FALSE, val |-> None],
     [text |-> <<>>, ok |-> FALSE, val |-> None]}

DiskTokens ==
    {n \in NumTokens : n.text \in {S_NA, <<"5", "0">>, <<"a", "b", "c">>}}

StatusTokens == {S_GOOD, S_WARNING}

TimestampTokens == {<<"t", "1">>, <<>>}

\* whitespace written before and after each field
Pads == {[l |-> <<>>, r |-> <<>>],
         [l |-> <<" ">>, r |-> <<>>],
         [l |-> <<"\t">>, r |-> <<" ", " ">>]}

\* the first n of the seven fields, or the seven and n - 7 more
FieldsOf(n, ts, isup, c, d, st) ==
    LET seven == <<ts, S_web01, S_prod, isup, c.text, d.text, st>>
    IN [i \in 1..n |-> IF i <= 7 THEN seven[i] ELSE S_extra]

\* the line of the log file that holds the fields
RenderLine(fields, pad) ==
    join(<<",">>, [i \in 1..Len(fields) |-> pad.l \o fields[i] \o pad.r])
        \o <<"\n">>

-----------------------------------------------------------------------------
(* Report text. *)

\* str(n) of an integer
RECURSIVE str_nat(_)
str_nat(n) ==
    IF n < 10 THEN <<Digits[n + 1]>>
    ELSE str_nat(n \div 10) \o <<Digits[(n % 10) + 1]>>

str_int(n) == IF n < 0 THEN <<"-">> \o str_nat(0 - n) ELSE str_nat(n)

\* f"{q:.1f}": q rounded to one decimal, a tie going to the even digit.  (A
\* tie whose float is not exact, k + 0.05, needs a divisor that is a multiple
\* of 20 and does not arise for the bucket sizes of the model.)
fmt_1f(q) ==
    LET a == IF q.num < 0 THEN 0 - q.num ELSE q.num
        fl == (10 * a) \div q.den
        rem == (10 * a) % q.den
        tenths == IF 2 * rem > q.den THEN fl + 1
                  ELSE IF 2 * rem < q.den THEN fl
                  ELSE IF fl % 2 = 0 THEN fl ELSE fl + 1
    IN (IF q.num < 0 THEN <<"-">> ELSE <<>>)
           \o str_nat(tenths \div 10) \o <<".">> \o str_nat(tenths % 10)

Separator == <<"========================================">>

\* the two sinks before a report: nothing printed by it, and the file as
\* open(report_file_path, "w") leaves it when a path is given
NoFile == [opened |-> FALSE, data |-> <<>>]
OpenW == [opened |-> TRUE, data |-> <<>>]

\* variant of write_and_print: the text is written without its newline
write_and_print_no_newline(out, texts) ==
    [console |-> out.console \o texts,
     file |-> IF out.file.opened
              THEN [opened |-> TRUE, data |-> out.file.data \o texts]
              ELSE out.file]

\* write_and_print(text, file_handle), called once for each of texts in
\* order: print(text); if file_handle: file_handle.write(text + "\n")
write_and_print(out, texts) ==
    [console |-> out.console \o texts,
     file |-> IF out.file.opened
              THEN [opened |-> TRUE,
                    data |-> out.file.data
                                 \o [i \in 1..Len(texts) |-> texts[i] \o <<"\n">>]]
              ELSE out.file]

\* the texts both reports emit after their heading lines
metrics_lines(m) ==
    <<<<"Total checks: ">> \o str_int(m.total_checks),
      <<"Uptime: ">> \o str_int(m.up_count) \o <<"/">>
          \o str_int(m.total_checks) \o <<" (">>
          \o fmt_1f(m.uptime_pct) \o <<"%)">>,
      <<"Warnings: ">> \o str_int(m.warning_count),
      <<"Critical (down): ">> \o str_int(m.critical_count),
      <<"Avg CPU: ">> \o fmt_1f(m.avg_cpu) \o <<"% | Max CPU: ">>
          \o str_int(m.max_cpu) \o <<"%">>,
      <<"Avg Disk: ">> \o fmt_1f(m.avg_disk) \o <<"% | Max Disk: ">>
          \o str_int(m.max_disk) \o <<"%">>,
      Separator,
      <<>>>>

\* one iteration of generate_server_report's loop: the texts it emits
server_block(server, entries_for_server) ==
    LET env == IF entries_for_server # <<>> THEN entries_for_server[1].env
               ELSE <<"unknown">>
        m == compute_server_metrics(entries_for_server)
    IN <<Separator,
         <<"SERVER: ">> \o server \o <<" (env: ">> \o env \o <<")">>>>
           \o metrics_lines(m)

RECURSIVE server_blocks(_, _, _)
server_blocks(out, summary, i) ==
    IF i > Len(summary.keys) THEN out
    ELSE server_blocks(
             write_and_print(out, server_block(summary.keys[i], summary.items[i])),
             summary, i + 1)

\* generate_server_report: the console after it and the file it leaves
generate_server_report(summary, report_file_path, printed) ==
    LET f == IF report_file_path # <<>> THEN OpenW ELSE NoFile
    IN server_blocks([console |-> printed, file |-> f], summary, 1)

\* sorted(S) of a set of strings
RECURSIVE sorted(_)
sorted(S) ==
    IF S = {} THEN <<>>
    ELSE LET m == CHOOSE x \in S : \A y \in S : x = y \/ StrLess(x, y)
         IN <<m>> \o sorted(S \ {m})

\* variant of servers_in_env: the distinct servers in order of appearance
RECURSIVE servers_as_seen(_)
servers_as_seen(entries_for_env) ==
    IF entries_for_env = <<>> THEN <<>>
    ELSE LET n == Len(entries_for_env)
             front == servers_as_seen(SubSeq(entries_for_env, 1, n - 1))
             s == entries_for_env[n].server
         IN IF \E i \in 1..Len(front) : front[i] = s THEN front
            ELSE Append(front, s)

\* sorted({entry["server"] for entry in entries_for_env})
servers_in_env(entries_for_env) ==
    sorted({entries_for_env[i].server : i \in 1..Len(entries_for_env)})

\* one iteration of generate_env_report's loop: the texts it emits
env_block(env, entries_for_env) ==
    LET env_name == IF entries_for_env # <<>> THEN env ELSE <<"unknown">>
        servers == servers_in_env(entries_for_env)
        m == compute_server_metrics(entries_for_env)
    IN <<Separator,
         <<"ENVIRONMENT: ">> \o env_name,
         <<"Servers in this env: ">> \o join(<<",", " ">>, servers)>>
           \o metrics_lines(m)

RECURSIVE env_blocks(_, _, _)
env_blocks(out, summary, i) ==
    IF i > Len(summary.keys) THEN out
    ELSE env_blocks(
             write_and_print(out, env_block(summary.keys[i], summary.items[i])),
             summary, i + 1)

\* generate_env_report: the console after it and the file it leaves
generate_env_report(summary, report_file_path, printed) ==
    LET f == IF report_file_path # <<>> THEN OpenW ELSE NoFile
    IN env_blocks([console |-> printed, file |-> f], summary, 1)

\* main's report paths, for the default --output
server_report_path == <<"server_", "analytics_report.txt:", ".txt">>
env_report_path == <<"env_", "analytics_report.txt:", ".txt">>

-----------------------------------------------------------------------------
(* server_check.py *)

CPU_WARN_THRESHOLD == 80
DISK_WARN_THRESHOLD == 85

servers == <<S_web01, S_db01, S_cache01, S_auth01, S_auth02>>

\* hardcode_env.get(server_name, "dev")
hardcode_env_get(server_name) ==
    IF server_name = S_web01 THEN S_prod
    ELSE IF server_name = S_db01 THEN S_prod
    ELSE IF server_name = S_cache01 THEN S_dev
    ELSE IF server_name = S_auth01 THEN S_stage
    ELSE S_dev

\* variant of health_eval: a reading at its threshold warns
health_eval_at_threshold(is_up, cpu, disk) ==
    IF ~is_up THEN S_CRITICAL
    ELSE IF cpu >= CPU_WARN_THRESHOLD \/ disk >= DISK_WARN_THRESHOLD
         THEN S_WARNING
    ELSE S_GOOD

health_eval(is_up, cpu, disk) ==
    IF ~is_up THEN S_CRITICAL
    ELSE IF cpu > CPU_WARN_THRESHOLD \/ disk > DISK_WARN_THRESHOLD
         THEN S_WARNING
    ELSE S_GOOD

\* simulate_metrics: what random.choice and the two random.randint(0, 100)
\* may return, the readings being the ends of the range and the values at
\* and next above the thresholds
simulate_metrics ==
    {[is_up |-> u, cpu |-> r[1], disk |-> r[2]] :
        u \in BOOLEAN,
        r \in {<<0, 0>>, <<80, 85>>, <<81, 85>>, <<80, 86>>, <<100, 100>>}}

\* str(True), str(False)
str_bool(b) == IF b THEN S_True ELSE S_False

\* datetime.now().isoformat() at the n-th check: a text with no comma and no
\* whitespace
isoformat(n) == <<"t">> \o str_nat(n)

\* check_server: the line it appends to LOG_FILE for the readings m
check_server(server_name, m, n) ==
    LET server_env == hardcode_env_get(server_name)
        status == health_eval(m.is_up, m.cpu, m.disk)
        cpu == IF ~m.is_up THEN S_NA ELSE str_int(m.cpu)
        disk == IF ~m.is_up THEN S_NA ELSE str_int(m.disk)
        timestamp == isoformat(n)
    IN join(<<",", " ">>,
            <<timestamp, server_name, server_env, str_bool(m.is_up),
              cpu, disk, status>>) \o <<"\n">>

-----------------------------------------------------------------------------
(* One run of log_report.main. *)

\* --report is one of server, env, both; --no-file is a flag
ArgsSet == [report : {"server", "env", "both"}, no_file : BOOLEAN]

\* the defaults of the two options
DefaultArgs == [report |-> "both", no_file |-> FALSE]

MainIdle ==
    /\ log = <<>>
    /\ pos = 1
    /\ entries = <<>>
    /\ err = "none"
    /\ summary_serv = EmptyDict
    /\ summary_env = EmptyDict
    /\ console = <<>>
    /\ server_file = NoFile
    /\ env_file = NoFile
    /\ pc = "idle"
    /\ args = DefaultArgs

ParseIdle ==
    /\ line = <<>>
    /\ want = [fields |-> <<>>, cpu |-> [text |-> <<>>, ok |-> FALSE, val |-> None],
               disk |-> [text |-> <<>>, ok |-> FALSE, val |-> None]]
    /\ parsed = Pending

FnIdle ==
    /\ recs = <<>>
    /\ metrics = Pending
    /\ grouped = Pending
    /\ reported = Pending

SimIdle ==
    /\ sim_i = 1
    /\ sim_n = 0

Init ==
    /\ log \in SeqsUpTo({LogLines[i] : i \in 1..Len(LogLines)}, MaxLines)
    /\ pos = 1
    /\ entries = <<>>
    /\ err = "none"
    /\ summary_serv = EmptyDict
    /\ summary_env = EmptyDict
    /\ console = <<>>
    /\ server_file = NoFile
    /\ env_file = NoFile
    /\ pc = "load"
    /\ args \in ArgsSet
    /\ ParseIdle
    /\ FnIdle
    /\ SimIdle

\* load_log_file, one iteration of "for line in f": an exception of
\* parse_log_line is not caught and ends the run
LoadLine ==
    /\ pc = "load"
    /\ pos <= Len(log)
    /\ LET entry == parse_log_line(log[pos]) IN
         /\ pos' = pos + 1
         /\ IF entry.kind = "raise"
            THEN /\ err' = entry.exc
                 /\ pc' = "crashed"
                 /\ UNCHANGED entries
            ELSE /\ entries' = IF entry.kind = "record"
                               THEN Append(entries, entry.rec) ELSE entries
                 /\ UNCHANGED <<err, pc>>
    /\ UNCHANGED <<log, summary_serv, summary_env, console, server_file,
                   env_file, parseVars, fnVars, simVars, args>>

\* load_log_file returns at the end of the file
LoadReturn ==
    /\ pc = "load"
    /\ pos > Len(log)
    /\ pc' = "summarize"
    /\ UNCHANGED <<log, pos, entries, err, summary_serv, summary_env, console,
                   server_file, env_file, parseVars, fnVars, simVars, args>>

\* the records the lines of a file give, in the order of the lines: a blank
\* line and a line that does not parse give none
RECURSIVE RecordsOf(_)
RecordsOf(ls) ==
    IF ls = <<>> THEN <<>>
    ELSE LET p == parse_log_line(Head(ls))
         IN (IF p.kind = "record" THEN <<p.rec>> ELSE <<>>) \o RecordsOf(Tail(ls))

\* variant of Summarize: the environment summary is made from the log as it
\* is now, read a second time
Summarize_rereading ==
    /\ pc = "summarize"
    /\ summary_serv' = summarize_by_server(entries)
    /\ summary_env' = summarize_by_env(RecordsOf(log))
    /\ pc' = "server_report"
    /\ UNCHANGED <<log, pos, entries, err, console, server_file, env_file,
                   parseVars, fnVars, simVars, args>>

\* summary_serv = summarize_by_server(entries)
\* summary_env = summarize_by_env(entries)
Summarize ==
    /\ pc = "summarize"
    /\ summary_serv' = summarize_by_server(entries)
    /\ summary_env' = summarize_by_env(entries)
    /\ pc' = "server_report"
    /\ UNCHANGED <<log, pos, entries, err, console, server_file, env_file,
                   parseVars, fnVars, simVars, args>>

\* generate_server_report(summary_serv, server_report_path)
GenerateServerReport ==
    /\ pc = "server_report"
    /\ LET out == generate_server_report(summary_serv, server_report_path,
                                         console)
       IN /\ console' = out.console
          /\ server_file' = out.file
    /\ pc' = "env_report"
    /\ UNCHANGED <<log, pos, entries, err, summary_serv, summary_env, env_file,
                   parseVars, fnVars, simVars, args>>

\* generate_env_report(summary_env, env_report_path)
GenerateEnvReport ==
    /\ pc = "env_report"
    /\ LET out == generate_env_report(summary_env, env_report_path, console)
       IN /\ console' = out.console
          /\ env_file' = out.file
    /\ pc' = "done"
    /\ UNCHANGED <<log, pos, entries, err, summary_serv, summary_env,
                   server_file, parseVars, fnVars, simVars, args>>

Next ==
    \/ LoadLine
    \/ LoadReturn
    \/ Summarize
    \/ GenerateServerReport
    \/ GenerateEnvReport

Spec == Init /\ [][Next]_vars

-----------------------------------------------------------------------------
(* One call of parse_log_line. *)

InitParse ==
    /\ MainIdle
    /\ FnIdle
    /\ SimIdle
    /\ \E n \in 1..MaxFields, ts \in TimestampTokens, isup \in IsUpTokens,
          c \in NumTokens, d \in DiskTokens, st \in StatusTokens, pad \in Pads :
         /\ want = [fields |-> FieldsOf(n, ts, isup, c, d, st),
                    cpu |-> c, disk |-> d]
         /\ line = RenderLine(FieldsOf(n, ts, isup, c, d, st), pad)
    /\ parsed = Pending

ParseLine ==
    /\ parsed.kind = "pending"
    /\ parsed' = parse_log_line(line)
    /\ UNCHANGED <<line, want, mainVars, fnVars, simVars>>

NextParse == ParseLine

SpecParse == InitParse /\ [][NextParse]_vars

-----------------------------------------------------------------------------
(* Calls of the grouping functions and of compute_server_metrics. *)

InitFn ==
    /\ MainIdle
    /\ ParseIdle
    /\ recs \in SeqsUpTo(SampleRecords, MaxBucket)
    /\ metrics = Pending
    /\ grouped = Pending
    /\ reported = Pending
    /\ SimIdle

CallComputeMetrics ==
    /\ metrics.kind = "pending"
    /\ metrics' = [kind |-> "metrics", m |-> compute_server_metrics(recs)]
    /\ UNCHANGED <<recs, grouped, reported, mainVars, parseVars, simVars>>

CallSummarize ==
    /\ grouped.kind = "pending"
    /\ grouped' = [kind |-> "dicts",
                   serv |-> summarize_by_server(recs),
                   env |-> summarize_by_env(recs),
                   status |-> summarize_health(recs)]
    /\ UNCHANGED <<recs, metrics, reported, mainVars, parseVars, simVars>>

\* generate_server_report and generate_env_report on the groupings of recs,
\* both with a report_file_path or both without (None, which is falsy as
\* the empty path is)
CallReports ==
    /\ reported.kind = "pending"
    /\ \E given \in BOOLEAN :
         reported' =
             [kind |-> "reports",
              given |-> given,
              serv |-> generate_server_report(
                           summarize_by_server(recs),
                           IF given THEN server_report_path ELSE None, <<>>),
              env |-> generate_env_report(
                          summarize_by_env(recs),
                          IF given THEN env_report_path ELSE None, <<>>)]
    /\ UNCHANGED <<recs, metrics, grouped, mainVars, parseVars, simVars>>

NextFn ==
    \/ CallComputeMetrics
    \/ CallSummarize
    \/ CallReports

SpecFn == InitFn /\ [][NextFn]_vars

-----------------------------------------------------------------------------
(* server_check.main: cycles of checks appending to the log. *)

InitSim ==
    /\ MainIdle
    /\ ParseIdle
    /\ FnIdle
    /\ SimIdle

\* run_cycle, one iteration of "for server in servers": check_server, while
\* fewer than most checks have been made
CheckServerUpTo(most) ==
    /\ sim_i <= Len(servers)
    /\ sim_n < most
    /\ \E m \in simulate_metrics :
           log' = Append(log, check_server(servers[sim_i], m, sim_n + 1))
    /\ sim_i' = sim_i + 1
    /\ sim_n' = sim_n + 1
    /\ UNCHANGED <<pos, entries, err, summary_serv, summary_env, console,
                   server_file, env_file, pc, args, parseVars, fnVars>>

CheckServer == CheckServerUpTo(MaxChecks)

\* main, "while True": the cycle is complete and the next one begins
CycleComplete ==
    /\ sim_i > Len(servers)
    /\ sim_i' = 1
    /\ UNCHANGED <<sim_n, mainVars, parseVars, fnVars>>

NextSim ==
    \/ CheckServer
    \/ CycleComplete

SpecSim == InitSim /\ [][NextSim]_vars

-----------------------------------------------------------------------------
(* One run of log_report.main beside a running server_check: each append of
   check_server is one write of a whole line to the file main reads. *)

InitLive ==
    /\ log = <<>>
    /\ pos = 1
    /\ entries = <<>>
    /\ err = "none"
    /\ summary_serv = EmptyDict
    /\ summary_env = EmptyDict
    /\ console = <<>>
    /\ server_file = NoFile
    /\ env_file = NoFile
    /\ pc = "load"
    /\ args = DefaultArgs
    /\ ParseIdle
    /\ FnIdle
    /\ SimIdle

LiveCheckServer == CheckServerUpTo(MaxAppends)

NextLive ==
    \/ LoadLine
    \/ LoadReturn
    \/ Summarize
    \/ GenerateServerReport
    \/ GenerateEnvReport
    \/ LiveCheckServer

SpecLive == InitLive /\ [][NextLive]_vars

-----------------------------------------------------------------------------
(* Properties. *)

\* C1: load_log_file never aborts because of one bad line: once it has
\* ended, no exception has ended the run and the entries are exactly the
\* records of the well-formed lines, in their order, those after a malformed
\* line included.
C1_BadLineIsSkipped ==
    pc # "load" => (pc # "crashed" /\ err = "none" /\ entries = RecordsOf(log))

\* C2: parse_log_line produces a record only for a line of exactly 7
\* comma-separated fields; a non-empty line of any other field count gives
\* no record and raises.
C2_ExactlySevenFields ==
    parsed.kind # "pending" =>
        /\ parsed.kind = "record" => Len(want.fields) = 7
        /\ (strip(line) # <<>> /\ Len(want.fields) # 7) => parsed.kind = "raise"

\* number of indices of a sequence that satisfy a test, given as the set of
\* those indices
Count(I) == Cardinality(I)

UpIndices == {i \in 1..Len(recs) : recs[i].is_up}

\* C3: up_count + critical_count = total_checks = the number of records of
\* the bucket, for every bucket, the empty one included.
C3_UpPlusCriticalIsTotal ==
    metrics.kind = "metrics" =>
        /\ metrics.m.total_checks = Len(recs)
        /\ metrics.m.up_count + metrics.m.critical_count = metrics.m.total_checks

C3_Witness ==
    /\ metrics.kind = "metrics"
    /\ metrics.m.up_count >= 1
    /\ metrics.m.critical_count >= 1
    /\ \E i \in 1..Len(recs) : ~recs[i].is_up /\ recs[i].status # S_CRITICAL

\* C4 as stated: uptime_pct is in [0, 100] and is 0 exactly when
\* total_checks = 0.
C4_UptimeZeroIffEmpty ==
    metrics.kind = "metrics" =>
        /\ 0 <= metrics.m.uptime_pct.num
        /\ metrics.m.uptime_pct.num <= 100 * metrics.m.uptime_pct.den
        /\ (metrics.m.uptime_pct.num = 0) <=> (metrics.m.total_checks = 0)

\* C4 amended: uptime_pct is in [0, 100]; it is 0 for the empty bucket and
\* 100 * (records that are up) / total_checks for any other, so it is 0
\* exactly when no record of the bucket is up.
C4_UptimeZeroIffNoneUp ==
    metrics.kind = "metrics" =>
        LET q == metrics.m.uptime_pct IN
        /\ q.den > 0
        /\ 0 <= q.num
        /\ q.num <= 100 * q.den
        /\ recs = <<>> => q.num = 0
        /\ recs # <<>> => q.num * Len(recs) = 100 * Count(UpIndices) * q.den
        /\ (q.num = 0) <=> (UpIndices = {})

C4_Witness ==
    /\ metrics.kind = "metrics"
    /\ recs # <<>>
    /\ UpIndices = {}
    /\ metrics.m.uptime_pct.num = 0

\* sum of the values a function gives on a finite set of indices
RECURSIVE SumOver(_, _)
SumOver(f, I) ==
    IF I = {} THEN 0
    ELSE LET i == CHOOSE j \in I : TRUE IN f[i] + SumOver(f, I \ {i})

CpuPresent == {i \in 1..Len(recs) : recs[i].cpu # None}
DiskPresent == {i \in 1..Len(recs) : recs[i].disk # None}
CpuAt == [i \in CpuPresent |-> recs[i].cpu[1]]
DiskAt == [i \in DiskPresent |-> recs[i].disk[1]]

\* an average and a maximum taken over the values at the indices I alone,
\* and both 0 when I is empty
OverPresentOnly(avg, mx, f, I) ==
    IF I = {} THEN avg.num = 0 /\ mx = 0
    ELSE /\ avg.den > 0
         /\ avg.num * Count(I) = SumOver(f, I) * avg.den
         /\ \E i \in I : f[i] = mx
         /\ \A i \in I : f[i] <= mx

\* C6: avg_cpu, max_cpu, avg_disk and max_disk are taken over the present
\* values of the bucket only (an absent value adds nothing to the sum, the
\* divisor or the maximum), and are 0 when the bucket has no present value.
C6_PresentValuesOnly ==
    metrics.kind = "metrics" =>
        /\ OverPresentOnly(metrics.m.avg_cpu, metrics.m.max_cpu, CpuAt, CpuPresent)
        /\ OverPresentOnly(metrics.m.avg_disk, metrics.m.max_disk, DiskAt,
                           DiskPresent)

C6_Witness ==
    /\ metrics.kind = "metrics"
    /\ CpuPresent # {}
    /\ \E i \in 1..Len(recs) : recs[i].cpu = None
    /\ \E i \in CpuPresent : CpuAt[i] < 0
    /\ metrics.m.avg_cpu.num < 0

\* an average and a maximum in [0, 100] when a value is present, 0 otherwise
Within0To100(avg, mx, I) ==
    IF I = {} THEN avg.num = 0 /\ mx = 0
    ELSE /\ 0 <= avg.num /\ avg.num <= 100 * avg.den
         /\ 0 <= mx /\ mx <= 100

\* C7 as stated: for a bucket of records the parser accepts, the averages
\* and maxima are in [0, 100] when a value is present, and 0 when none is.
C7_AveragesWithin0To100 ==
    metrics.kind = "metrics" =>
        /\ Within0To100(metrics.m.avg_cpu, metrics.m.max_cpu, CpuPresent)
        /\ Within0To100(metrics.m.avg_disk, metrics.m.max_disk, DiskPresent)

\* an average and a maximum between the least and the greatest value at the
\* indices I, and 0 when I is empty
WithinValues(avg, mx, f, I) ==
    IF I = {} THEN avg.num = 0 /\ mx = 0
    ELSE /\ avg.den > 0
         /\ \E lo \in I, hi \in I :
               /\ \A i \in I : f[lo] <= f[i] /\ f[i] <= f[hi]
               /\ f[lo] * avg.den <= avg.num /\ avg.num <= f[hi] * avg.den
               /\ f[lo] <= mx /\ mx <= f[hi]

\* C7 amended: the averages and maxima lie between the least and the
\* greatest present value of their field, so they are in [0, 100] whenever
\* all present values are (the parser accepts any integer), and they are 0
\* when no value is present.
C7_AveragesWithinValues ==
    metrics.kind = "metrics" =>
        /\ WithinValues(metrics.m.avg_cpu, metrics.m.max_cpu, CpuAt, CpuPresent)
        /\ WithinValues(metrics.m.avg_disk, metrics.m.max_disk, DiskAt,
                        DiskPresent)
        /\ (\A i \in CpuPresent : 0 <= CpuAt[i] /\ CpuAt[i] <= 100)
               => Within0To100(metrics.m.avg_cpu, metrics.m.max_cpu, CpuPresent)
        /\ (\A i \in DiskPresent : 0 <= DiskAt[i] /\ DiskAt[i] <= 100)
               => Within0To100(metrics.m.avg_disk, metrics.m.max_disk,
                               DiskPresent)

C7_Witness ==
    /\ metrics.kind = "metrics"
    /\ Cardinality(CpuPresent) >= 2
    /\ \E i \in CpuPresent : CpuAt[i] > 100
    /\ metrics.m.avg_cpu.num > 100 * metrics.m.avg_cpu.den
    /\ metrics.m.max_cpu > 100

WarningIndices == {i \in 1..Len(recs) : recs[i].status = S_WARNING}

\* C8: warning_count is the number of records whose status is WARNING,
\* whatever their is_up, and is at most total_checks.
C8_WarningCount ==
    metrics.kind = "metrics" =>
        /\ metrics.m.warning_count = Count(WarningIndices)
        /\ metrics.m.warning_count <= metrics.m.total_checks

C8_Witness ==
    /\ metrics.kind = "metrics"
    /\ metrics.m.warning_count = 2
    /\ \E i \in WarningIndices : recs[i].is_up
    /\ \E i \in WarningIndices : ~recs[i].is_up
    /\ \E i \in 1..Len(recs) : i \notin WarningIndices

\* the indices of a sequence of keys that hold the key k, ascending
IndicesOf(ks, k) == SelectSeq([i \in 1..Len(ks) |-> i], LAMBDA i : ks[i] = k)

\* the lists of a dict one after the other, in key order
RECURSIVE Flatten(_)
Flatten(lists) ==
    IF lists = <<>> THEN <<>> ELSE Head(lists) \o Flatten(Tail(lists))

Occurrences(sq, x) == Cardinality({i \in 1..Len(sq) : sq[i] = x})

\* d groups the records rs, whose keys are ks (ks[i] the key of rs[i]), as an
\* order-preserving partition
OrderPreservingPartition(d, rs, ks) ==
    /\ Len(d.keys) = Len(d.items)
    /\ \A i, j \in 1..Len(d.keys) : i # j => d.keys[i] # d.keys[j]
    /\ {d.keys[i] : i \in 1..Len(d.keys)} = {ks[i] : i \in 1..Len(ks)}
    /\ \A i, j \in 1..Len(d.keys) :
           i < j => IndicesOf(ks, d.keys[i])[1] < IndicesOf(ks, d.keys[j])[1]
    /\ \A i \in 1..Len(d.keys) :
           LET at == IndicesOf(ks, d.keys[i])
           IN d.items[i] = [n \in 1..Len(at) |-> rs[at[n]]]
    /\ Len(Flatten(d.items)) = Len(rs)
    /\ \A i \in 1..Len(rs) :
           Occurrences(Flatten(d.items), rs[i]) = Occurrences(rs, rs[i])

\* C5: summarize_by_server, summarize_by_env and summarize_health each
\* give an order-preserving partition: keys in order of first occurrence,
\* each bucket exactly the records of its key in their original order, and
\* the buckets flattened in key order a permutation of the input.
C5_OrderPreservingPartition ==
    grouped.kind = "dicts" =>
        /\ OrderPreservingPartition(grouped.serv, recs,
                                    [i \in 1..Len(recs) |-> recs[i].server])
        /\ OrderPreservingPartition(grouped.env, recs,
                                    [i \in 1..Len(recs) |-> recs[i].env])
        /\ OrderPreservingPartition(grouped.status, recs,
                                    [i \in 1..Len(recs) |-> recs[i].status])

C5_Witness ==
    /\ grouped.kind = "dicts"
    /\ Len(recs) = 3
    /\ recs[1].env = recs[3].env
    /\ recs[1].env # recs[2].env
    /\ recs[1] # recs[3]
    /\ Len(grouped.env.keys) = 2
    /\ grouped.env.items[1] = <<recs[1], recs[3]>>
    /\ Flatten(grouped.env.items) # recs

\* C9: every field is trimmed before it is interpreted; is_up is true for
\* the token True alone and false for any other token, which raises nothing;
\* a cpu or disk token N/A is absent (never 0) and an integer literal is its
\* base-10 value; no record is made of a token that is neither.
C9_FieldDecoding ==
    parsed.kind # "pending" =>
        /\ parsed.kind = "record" =>
               /\ Len(want.fields) >= 7
               /\ parsed.rec.timestamp = want.fields[1]
               /\ parsed.rec.server = want.fields[2]
               /\ parsed.rec.env = want.fields[3]
               /\ parsed.rec.is_up = (want.fields[4] = S_True)
               /\ want.cpu.ok /\ parsed.rec.cpu = want.cpu.val
               /\ want.disk.ok /\ parsed.rec.disk = want.disk.val
               /\ parsed.rec.status = want.fields[7]
               /\ want.fields[5] = S_NA => parsed.rec.cpu = None
               /\ want.fields[6] = S_NA => parsed.rec.disk = None
        /\ (Len(want.fields) >= 7 /\ want.cpu.ok /\ want.disk.ok)
               => parsed.kind = "record"

C9_Witness ==
    /\ parsed.kind = "record"
    /\ Head(line) = "\t"
    /\ want.fields[4] = S_true
    /\ ~parsed.rec.is_up
    /\ parsed.rec.cpu = None
    /\ parsed.rec.disk = <<50>>
    /\ parsed.rec.server = S_web01

\* the names a context line lists: the text after its label, cut at ", "
ListedNames(text) ==
    LET parts == split(Tail(text), ",")
    IN [i \in 1..Len(parts) |-> IF i = 1 THEN parts[i] ELSE Tail(parts[i])]

\* the context line of the i-th environment block on the console: the
\* server report's blocks of 10 lines come first, an environment block has
\* 11 lines and the context line is its third
ContextLine(i) == console[10 * Len(summary_serv.keys) + 11 * (i - 1) + 3]

\* C10: in the environment report the context line of each bucket lists
\* exactly the distinct servers of the records of that environment, each
\* once, in ascending lexicographic order.
C10_ServersSortedDistinct ==
    pc = "done" =>
        \A i \in 1..Len(summary_env.keys) :
            LET names == ListedNames(ContextLine(i))
            IN /\ Head(ContextLine(i)) = "Servers in this env: "
               /\ \A a, b \in 1..Len(names) : a < b => StrLess(names[a], names[b])
               /\ {names[a] : a \in 1..Len(names)}
                      = {entries[j].server :
                            j \in {n \in 1..Len(entries) :
                                      entries[n].env = summary_env.keys[i]}}

C10_Witness ==
    /\ pc = "done"
    /\ Len(entries) = 3
    /\ entries[1].server = S_web01
    /\ entries[2].server = S_db01
    /\ entries[3].server = S_web01
    /\ Len(summary_env.keys) = 1
    /\ ListedNames(ContextLine(1)) = <<S_db01, S_web01>>

\* the lines of a file: what was written, cut at the newlines
FileLines(data) ==
    LET parts == split(Flatten(data), "\n")
    IN SubSeq(parts, 1, Len(parts) - 1)

\* text begins with the chunks of prefix
StartsWith(text, prefix) ==
    Len(text) >= Len(prefix) /\ SubSeq(text, 1, Len(prefix)) = prefix

\* a report of one block of n lines per key of d, in key order, each block
\* headed by its label and key; the file, when a path was given, holds the
\* console's lines, and nothing is opened or written otherwise
EmittedToBothSinks(out, d, n, label, given) ==
    /\ Len(out.console) = n * Len(d.keys)
    /\ \A i \in 1..Len(d.keys) :
           /\ out.console[n * (i - 1) + 1] = Separator
           /\ StartsWith(out.console[n * (i - 1) + 2], <<label>> \o d.keys[i])
    /\ given => (out.file.opened /\ FileLines(out.file.data) = out.console)
    /\ ~given => out.file = NoFile

\* C11: generate_server_report and generate_env_report emit every line to
\* the console, one block per bucket in bucket order; with a report file
\* path the lines written to the file are the console's lines in the same
\* order, and without one nothing is written to any file.
C11_SameLinesInBothSinks ==
    reported.kind = "reports" =>
        /\ EmittedToBothSinks(reported.serv, summarize_by_server(recs), 10,
                              "SERVER: ", reported.given)
        /\ EmittedToBothSinks(reported.env, summarize_by_env(recs), 11,
                              "ENVIRONMENT: ", reported.given)

C11_Witness ==
    /\ reported.kind = "reports"
    /\ reported.given
    /\ Len(reported.serv.console) >= 20
    /\ Len(reported.env.console) >= 22
    /\ Len(FileLines(reported.env.file.data)) >= 22

\* the console holds a heading line of the given label
HasHeading(label) ==
    \E i \in 1..Len(console) : StartsWith(console[i], <<label>>)

\* C13: main honours its options as their help text states: --report
\* server (env) generates only the server (environment) report, both
\* generates the two, and --no-file prints without writing output files.
C13_OptionsHonoured ==
    pc = "done" =>
        /\ args.no_file => (~server_file.opened /\ ~env_file.opened)
        /\ args.report = "server" =>
               (~HasHeading("ENVIRONMENT: ") /\ ~env_file.opened)
        /\ args.report = "env" =>
               (~HasHeading("SERVER: ") /\ ~server_file.opened)
        /\ (args.report = "both" /\ entries # <<>>) =>
               (HasHeading("SERVER: ") /\ HasHeading("ENVIRONMENT: "))

\* no bucket of the dict is the empty list
BucketsNonEmpty(d) ==
    \A i \in 1..Len(d.keys) : d.items[i] # <<>>

\* the text holds the fallback label of an empty bucket
HasUnknown(text) ==
    \E k \in 1..Len(text) : text[k] = "unknown"

\* no emitted line holds the fallback label, and every total read back
\* from a "Total checks: " line is at least 1
RenderedFromNonEmpty(lines) ==
    \A i \in 1..Len(lines) :
        /\ ~HasUnknown(lines[i])
        /\ StartsWith(lines[i], <<"Total checks: ">>) =>
               (int(Tail(lines[i])).ok /\ int(Tail(lines[i])).val >= 1)

\* C15: every bucket summarize_by_server, summarize_by_env and
\* summarize_health produce is non-empty, so the reports made from them
\* never emit the "unknown" label and every block has total_checks >= 1.
C15_NoEmptyBucket ==
    /\ grouped.kind = "dicts" =>
           /\ BucketsNonEmpty(grouped.serv)
           /\ BucketsNonEmpty(grouped.env)
           /\ BucketsNonEmpty(grouped.status)
    /\ reported.kind = "reports" =>
           /\ RenderedFromNonEmpty(reported.serv.console)
           /\ RenderedFromNonEmpty(reported.env.console)

C15_Witness ==
    /\ grouped.kind = "dicts"
    /\ reported.kind = "reports"
    /\ Len(grouped.serv.keys) >= 2
    /\ \E i \in 1..Len(grouped.serv.keys) : Len(grouped.serv.items[i]) = 1
    /\ \E i \in 1..Len(reported.serv.console) :
           reported.serv.console[i] = <<"Total checks: ", "1">>

\* the fields of a line as read back: split at the commas, each stripped
LineFields(l) ==
    LET parts == split(strip(l), ",")
    IN [i \in 1..Len(parts) |-> strip(parts[i])]

\* the line has seven fields; it is down exactly when cpu and disk are both
\* N/A and exactly when its status is CRITICAL; an up line has cpu and disk
\* integers in 0..100 and is WARNING exactly when cpu > 80 or disk > 85,
\* GOOD otherwise
WellFormedCheck(f) ==
    /\ Len(f) = 7
    /\ f[4] \in {S_True, S_False}
    /\ f[7] \in {S_GOOD, S_WARNING, S_CRITICAL}
    /\ (f[4] = S_False) <=> (f[5] = S_NA /\ f[6] = S_NA)
    /\ (f[4] = S_False) <=> (f[5] = S_NA \/ f[6] = S_NA)
    /\ (f[4] = S_False) <=> (f[7] = S_CRITICAL)
    /\ f[4] = S_True =>
           /\ int(f[5]).ok /\ int(f[5]).val \in 0..100
           /\ int(f[6]).ok /\ int(f[6]).val \in 0..100
           /\ (f[7] = S_WARNING) <=>
                  (int(f[5]).val > 80 \/ int(f[6]).val > 85)

\* C14: every line check_server appends has is_up False iff cpu and disk
\* are both N/A iff status is CRITICAL; when up, cpu and disk are integers
\* in 0..100 and status is WARNING exactly when cpu > 80 or disk > 85 (a
\* reading of exactly 80 / 85 is GOOD), GOOD otherwise.
C14_LoggedLineInvariant ==
    \A k \in 1..Len(log) : WellFormedCheck(LineFields(log[k]))

C14_Witness ==
    /\ sim_n >= 3
    /\ \E k \in 1..Len(log) :
           LET f == LineFields(log[k])
           IN f[4] = S_True /\ f[5] = <<"8", "0">> /\ f[6] = <<"8", "5">>
              /\ f[7] = S_GOOD
    /\ \E k \in 1..Len(log) :
           LET f == LineFields(log[k])
           IN f[4] = S_True /\ f[5] = <<"8", "1">> /\ f[7] = S_WARNING
    /\ \E k \in 1..Len(log) :
           LET f == LineFields(log[k])
           IN f[4] = S_False /\ f[5] = S_NA /\ f[7] = S_CRITICAL

\* the sum, over the lines that begin with the label, of the number that
\* follows it (up to a "/", if there is one)
RECURSIVE FieldSum(_, _)
FieldSum(lines, label) ==
    IF lines = <<>> THEN 0
    ELSE (IF StartsWith(Head(lines), <<label>>)
          THEN int(split(Tail(Head(lines)), "/")[1]).val
          ELSE 0) + FieldSum(Tail(lines), label)

UpEntries == {i \in 1..Len(entries) : entries[i].is_up}

\* C16: one run of main reads the log once and makes both reports from the
\* records it loaded: whatever the simulator appends during the run, the
\* totals, up counts and critical counts summed over the server blocks
\* equal those summed over the environment blocks, and equal the number of
\* records loaded (of up records, of down records).
C16_BothReportsFromOneLoad ==
    pc = "done" =>
        LET s == FileLines(server_file.data)
            e == FileLines(env_file.data)
        IN /\ FieldSum(s, "Total checks: ") = Len(entries)
           /\ FieldSum(e, "Total checks: ") = Len(entries)
           /\ FieldSum(s, "Uptime: ") = Count(UpEntries)
           /\ FieldSum(e, "Uptime: ") = Count(UpEntries)
           /\ FieldSum(s, "Critical (down): ") = Len(entries) - Count(UpEntries)
           /\ FieldSum(e, "Critical (down): ") = Len(entries) - Count(UpEntries)

C16_Witness ==
    /\ pc = "done"
    /\ Len(entries) >= 2
    /\ Len(log) > Len(entries)
    /\ Len(summary_serv.keys) >= 2
    /\ UpEntries # {}
    /\ UpEntries # 1..Len(entries)

====
